---------------------------- MODULE Spec2Model ----------------------------
(*************************************************************************)
(* Route Explorer Panel of src/generate_map.py: the page that            *)
(* generate_html emits.  generate_html embeds the route list, the        *)
(* airport feature collection and the sorted distinct source codes; the  *)
(* page's script keeps a <select>, two checkboxes, a summary <div> and   *)
(* one deck.gl overlay, and recomputes the view in updateLayers().       *)
(*                                                                       *)
(* A route is modelled by its two airport codes; its four coordinates    *)
(* are only handed to the arc layer's position accessors and take part   *)
(* in no decision.  An airport feature is modelled by properties.id and  *)
(* properties.name.                                                      *)
(*************************************************************************)
EXTENDS Naturals, Sequences, FiniteSets, TLC

\* ------------------------------------------------------------ bounds
\* Longest route dataset explored.
MaxRoutes == 2

\* Airport codes of the explored datasets, in lexicographic order (the
\* order Python's sorted() and JavaScript's === see them in).
AllCodes == <<"ATL", "JFK", "ORD">>

Codes == {AllCodes[i] : i \in DOMAIN AllCodes}

Rank(c) == CHOOSE i \in DOMAIN AllCodes : AllCodes[i] = c

\* properties.name of the airport feature with each id.
AirportNames == [c \in Codes |->
                   CASE c = "ATL" -> "Hartsfield Jackson Atlanta Intl"
                     [] c = "JFK" -> "John F Kennedy Intl"
                     [] OTHER     -> "Chicago Ohare Intl"]

RouteRecords == [src_airport : Codes, dst_airport : Codes]

SeqsUpTo(S, n) == UNION {[1..k -> S] : k \in 0..n}

\* Feature collections: one feature per code of a subset, ids unique.
FeatureList(S) ==
  LET ids == SortSeq(SelectSeq(AllCodes, LAMBDA c : c \in S),
                     LAMBDA a, b : Rank(a) < Rank(b))
  IN  [i \in DOMAIN ids |-> [id |-> ids[i], name |-> AirportNames[ids[i]]]]

\* ------------------------------------------------------------ state
VARIABLES
  ROUTES_DATA,       \* embedded route records                  (line 148)
  AIRPORTS_GEOJSON,  \* embedded airport features               (line 149)
  SRC_AIRPORTS,      \* embedded sorted distinct source codes   (line 150)
  selectValue,       \* select.value of #airport-select
  showRoutesChecked, \* #show-routes .checked
  showAirportsChecked, \* #show-airports .checked
  statsDiv,          \* content of #stats
  deckOverlay,       \* <<>> for null, else <<[id, layers]>>    (line 181)
  mapControls,       \* overlay ids handed to map.addControl    (line 262)
  mapLoaded,         \* the map's 'load' event has fired
  filteredRoutes,    \* updateLayers' filteredRoutes, last run
  connectedCodes,    \* updateLayers' connectedCodes, last run
  lastEvent          \* the event whose handler ran last

vars == <<ROUTES_DATA, AIRPORTS_GEOJSON, SRC_AIRPORTS, selectValue,
          showRoutesChecked, showAirportsChecked, statsDiv, deckOverlay,
          mapControls, mapLoaded, filteredRoutes, connectedCodes, lastEvent>>

\* ------------------------------------------------- generate_html (Python)
\* df["src_airport"].unique(): distinct values in order of first appearance.
RECURSIVE UniqueFrom(_, _)
UniqueFrom(s, seen) ==
  IF s = <<>> THEN <<>>
  ELSE IF Head(s) \in seen THEN UniqueFrom(Tail(s), seen)
       ELSE <<Head(s)>> \o UniqueFrom(Tail(s), seen \cup {Head(s)})

SrcColumn(routes) == [i \in DOMAIN routes |-> routes[i].src_airport]

\* sorted(df["src_airport"].unique().tolist())
src_airports(routes) ==
  SortSeq(UniqueFrom(SrcColumn(routes), {}), LAMBDA a, b : Rank(a) < Rank(b))

\* ------------------------------------------------- the page's script
currentAirport == "ATL"

\* A <select> without options has value "".
NoValue == ""

SeqRange(s) == {s[i] : i \in DOMAIN s}

\* Populate Dropdown: options are appended in order.  An appended option
\* becomes the selected one when it is marked selected (code ===
\* currentAirport) or when the select had no selected option yet (the
\* first option of a single select is selected by default).
RECURSIVE PopulateFrom(_, _)
PopulateFrom(options, value) ==
  IF options = <<>> THEN value
  ELSE PopulateFrom(Tail(options),
                    IF Head(options) = currentAirport \/ value = NoValue
                    THEN Head(options) ELSE value)

PopulateDropdown_AlwaysDefault(options) == currentAirport

PopulateDropdown(options) == PopulateFrom(options, NoValue)

\* select.value = v: selects the option with that value, or none.
SetSelectValue(options, v) == IF v \in SeqRange(options) THEN v ELSE NoValue

\* getAirportName(code)
getAirportName(features, code) ==
  LET hits == SelectSeq(features, LAMBDA f : f.id = code)
  IN  IF hits # <<>> THEN Head(hits).name ELSE code

\* ROUTES_DATA.filter(d => d.src_airport === selectedCode)
filterRoutes_ByDestination(routes, selectedCode) ==
  SelectSeq(routes, LAMBDA d : d.dst_airport = selectedCode)

filterRoutes(routes, selectedCode) ==
  SelectSeq(routes, LAMBDA d : d.src_airport = selectedCode)

\* new Set(filteredRoutes.map(d => d.dst_airport)); add(selectedCode)
connectedCodesOf_NoAdd(filtered, selectedCode) ==
  {filtered[i].dst_airport : i \in DOMAIN filtered}

connectedCodesOf(filtered, selectedCode) ==
  {filtered[i].dst_airport : i \in DOMAIN filtered} \cup {selectedCode}

\* AIRPORTS_GEOJSON.features.filter(f => connectedCodes.has(f.properties.id))
filterAirports(features, connected) ==
  SelectSeq(features, LAMBDA f : f.id \in connected)

\* The summary written to statsDiv.innerHTML.
statsOf_SizeOnly(features, selectedCode, filtered, connected) ==
  [kind |-> "summary", code |-> selectedCode,
   name |-> getAirportName(features, selectedCode),
   routes |-> Len(filtered), destinations |-> Cardinality(connected)]

statsOf(features, selectedCode, filtered, connected) ==
  [kind |-> "summary", code |-> selectedCode,
   name |-> getAirportName(features, selectedCode),
   routes |-> Len(filtered), destinations |-> Cardinality(connected) - 1]

\* #stats as the template ships it: "Select an airport to see routes."
Placeholder ==
  [kind |-> "placeholder", code |-> NoValue, name |-> NoValue,
   routes |-> 0, destinations |-> 0]

ArcLayer(filtered) ==
  [id |-> "arc-layer", routes |-> filtered, features |-> <<>>,
   selectedCode |-> NoValue]

ScatterplotLayer(airports, selectedCode) ==
  [id |-> "airport-layer", routes |-> <<>>, features |-> airports,
   selectedCode |-> selectedCode]

\* const layers = []; push the arc layer, then the airport layer.
buildLayers_ArcsAlways(showRoutes, showAirports, filtered, airports, selectedCode) ==
  <<ArcLayer(filtered)>>
  \o (IF showAirports THEN <<ScatterplotLayer(airports, selectedCode)>> ELSE <<>>)

buildLayers(showRoutes, showAirports, filtered, airports, selectedCode) ==
  (IF showRoutes THEN <<ArcLayer(filtered)>> ELSE <<>>)
  \o (IF showAirports THEN <<ScatterplotLayer(airports, selectedCode)>> ELSE <<>>)

\* Create or Update Overlay: [overlay, controls] after the step.
createOrUpdateOverlay_AlwaysCreate(overlay, controls, layers) ==
  [overlay  |-> <<[id |-> Len(controls) + 1, layers |-> layers]>>,
   controls |-> Append(controls, Len(controls) + 1)]

createOrUpdateOverlay(overlay, controls, layers) ==
  IF overlay = <<>>
  THEN [overlay  |-> <<[id |-> Len(controls) + 1, layers |-> layers]>>,
        controls |-> Append(controls, Len(controls) + 1)]
  ELSE [overlay  |-> <<[id |-> overlay[1].id, layers |-> layers]>>,
        controls |-> controls]

\* updateLayers(), run with the DOM holding the given control values.
updateLayers(selectedCode, showRoutes, showAirports) ==
  LET filtered  == filterRoutes(ROUTES_DATA, selectedCode)
      connected == connectedCodesOf(filtered, selectedCode)
      airports  == filterAirports(AIRPORTS_GEOJSON, connected)
      layers    == buildLayers(showRoutes, showAirports, filtered, airports,
                               selectedCode)
      ov        == createOrUpdateOverlay(deckOverlay, mapControls, layers)
  IN  /\ filteredRoutes' = filtered
      /\ connectedCodes' = connected
      /\ statsDiv' = statsOf(AIRPORTS_GEOJSON, selectedCode, filtered, connected)
      /\ deckOverlay' = ov.overlay
      /\ mapControls' = ov.controls

Event(kind, code, ran) == [kind |-> kind, code |-> code, ran |-> ran]

\* ------------------------------------------------------------ Init
Init ==
  /\ ROUTES_DATA \in SeqsUpTo(RouteRecords, MaxRoutes)
  /\ AIRPORTS_GEOJSON \in {FeatureList(S) : S \in SUBSET Codes}
  /\ SRC_AIRPORTS = src_airports(ROUTES_DATA)
  /\ selectValue = PopulateDropdown(SRC_AIRPORTS)
  /\ showRoutesChecked = TRUE
  /\ showAirportsChecked = TRUE
  /\ statsDiv = Placeholder
  /\ deckOverlay = <<>>
  /\ mapControls = <<>>
  /\ mapLoaded = FALSE
  /\ filteredRoutes = <<>>
  /\ connectedCodes = {}
  /\ lastEvent = Event("none", NoValue, FALSE)

\* ------------------------------------------------------------ actions
\* map.on('load', () => updateLayers())
MapLoad ==
  /\ ~mapLoaded
  /\ mapLoaded' = TRUE
  /\ updateLayers(selectValue, showRoutesChecked, showAirportsChecked)
  /\ lastEvent' = Event("load", NoValue, TRUE)
  /\ UNCHANGED <<ROUTES_DATA, AIRPORTS_GEOJSON, SRC_AIRPORTS, selectValue,
                 showRoutesChecked, showAirportsChecked>>

\* What the 'change' listener of the select leaves behind when the user
\* has picked option K: the browser sets select.value, then updateLayers.
SelectChangeEffect(K) ==
  /\ selectValue' = SetSelectValue(SRC_AIRPORTS, K)
  /\ updateLayers(SetSelectValue(SRC_AIRPORTS, K), showRoutesChecked,
                  showAirportsChecked)
  /\ UNCHANGED <<ROUTES_DATA, AIRPORTS_GEOJSON, SRC_AIRPORTS, mapLoaded,
                 showRoutesChecked, showAirportsChecked>>

\* The user picks another option of the dropdown.
SelectChange(K) ==
  /\ K \in SeqRange(SRC_AIRPORTS)
  /\ K # selectValue
  /\ SelectChangeEffect(K)
  /\ lastEvent' = Event("change", K, TRUE)

\* The user flips #show-routes.
ToggleRoutes ==
  /\ showRoutesChecked' = ~showRoutesChecked
  /\ updateLayers(selectValue, ~showRoutesChecked, showAirportsChecked)
  /\ lastEvent' = Event("toggle-routes", NoValue, TRUE)
  /\ UNCHANGED <<ROUTES_DATA, AIRPORTS_GEOJSON, SRC_AIRPORTS, selectValue,
                 showAirportsChecked, mapLoaded>>

\* The user flips #show-airports.
ToggleAirports_NoRedraw ==
  /\ showAirportsChecked' = ~showAirportsChecked
  /\ lastEvent' = Event("toggle-airports", NoValue, FALSE)
  /\ UNCHANGED <<ROUTES_DATA, AIRPORTS_GEOJSON, SRC_AIRPORTS, selectValue,
                 showRoutesChecked, mapLoaded, statsDiv, deckOverlay,
                 mapControls, filteredRoutes, connectedCodes>>

ToggleAirports ==
  /\ showAirportsChecked' = ~showAirportsChecked
  /\ updateLayers(selectValue, showRoutesChecked, ~showAirportsChecked)
  /\ lastEvent' = Event("toggle-airports", NoValue, TRUE)
  /\ UNCHANGED <<ROUTES_DATA, AIRPORTS_GEOJSON, SRC_AIRPORTS, selectValue,
                 showRoutesChecked, mapLoaded>>

\* SRC_AIRPORTS.includes(clickedCode)
isSourceOption_Always(options, clickedCode) == TRUE

isSourceOption(options, clickedCode) == clickedCode \in SeqRange(options)

\* The features of the pickable airport layer of the overlay handed to
\* map.addControl; the overlay may exist before the map's 'load' event.
RenderedPoints ==
  IF deckOverlay # <<>>
  THEN UNION {SeqRange(deckOverlay[1].layers[i].features) :
                i \in DOMAIN deckOverlay[1].layers}
  ELSE {}

\* onClick of the airport layer, info.object being a rendered feature.
onClick_SetOnly(object) ==
  /\ object \in RenderedPoints
  /\ IF isSourceOption(SRC_AIRPORTS, object.id)
     THEN /\ selectValue' = SetSelectValue(SRC_AIRPORTS, object.id)
          /\ lastEvent' = Event("click", object.id, FALSE)
     ELSE /\ selectValue' = selectValue
          /\ lastEvent' = Event("click", object.id, FALSE)
  /\ UNCHANGED <<ROUTES_DATA, AIRPORTS_GEOJSON, SRC_AIRPORTS, mapLoaded,
                 showRoutesChecked, showAirportsChecked, statsDiv,
                 deckOverlay, mapControls, filteredRoutes, connectedCodes>>

onClick(object) ==
  /\ object \in RenderedPoints
  /\ IF isSourceOption(SRC_AIRPORTS, object.id)
     THEN /\ selectValue' = SetSelectValue(SRC_AIRPORTS, object.id)
          /\ updateLayers(SetSelectValue(SRC_AIRPORTS, object.id),
                          showRoutesChecked, showAirportsChecked)
          /\ lastEvent' = Event("click", object.id, TRUE)
          /\ UNCHANGED <<ROUTES_DATA, AIRPORTS_GEOJSON, SRC_AIRPORTS,
                         mapLoaded, showRoutesChecked, showAirportsChecked>>
     ELSE /\ lastEvent' = Event("click", object.id, FALSE)
          /\ UNCHANGED <<ROUTES_DATA, AIRPORTS_GEOJSON, SRC_AIRPORTS,
                         selectValue, showRoutesChecked, showAirportsChecked,
                         statsDiv, deckOverlay, mapControls, mapLoaded,
                         filteredRoutes, connectedCodes>>

AirportClick == \E object \in SeqRange(AIRPORTS_GEOJSON) : onClick(object)

DropdownChange == \E K \in Codes : SelectChange(K)

Next ==
  \/ MapLoad
  \/ DropdownChange
  \/ ToggleRoutes
  \/ ToggleAirports
  \/ AirportClick

Spec == Init /\ [][Next]_vars

\* ------------------------------------------------------------ helpers
Rendered == deckOverlay # <<>>

DisplayedLayers == IF deckOverlay = <<>> THEN <<>> ELSE deckOverlay[1].layers

LayersWithId(layers, id) == SelectSeq(layers, LAMBDA l : l.id = id)

Count(s, x) == Cardinality({i \in DOMAIN s : s[i] = x})

Destinations(s) == {s[i].dst_airport : i \in DOMAIN s}

SelectableCodes == SeqRange(SRC_AIRPORTS) \cup {NoValue}

UserEvents == {"change", "toggle-routes", "toggle-airports", "click"}

\* ------------------------------------------------------------ claims

\* C1: for every code C of the option list, the filtered route list of
\* updateLayers holds every route whose source is C as often as the dataset
\* does, in dataset order, and no route with another source; the arc layer
\* draws that list.
C1_FilterExact ==
  /\ \A C \in SeqRange(SRC_AIRPORTS) : \A r \in RouteRecords :
       Count(filterRoutes(ROUTES_DATA, C), r) =
         IF r.src_airport = C THEN Count(ROUTES_DATA, r) ELSE 0
  /\ Rendered =>
       /\ \A r \in RouteRecords :
            Count(filteredRoutes, r) =
              IF r.src_airport = selectValue THEN Count(ROUTES_DATA, r) ELSE 0
       /\ \A i \in DOMAIN DisplayedLayers :
            DisplayedLayers[i].id = "arc-layer" =>
              DisplayedLayers[i].routes = filteredRoutes

\* A selection change has filtered a dataset that also holds a route of
\* another source.
C1_Witness ==
  /\ Rendered
  /\ lastEvent.kind = "change"
  /\ filteredRoutes # <<>>
  /\ Len(filteredRoutes) < Len(ROUTES_DATA)

\* C2: after every updateLayers the connected-airport set is the destination
\* codes of the filtered routes plus the selected code, so it contains the
\* selected code even when no route has it as source.
C2_ConnectedHasSelected ==
  /\ \A C \in Codes \cup {NoValue} :
       C \in connectedCodesOf(filterRoutes(ROUTES_DATA, C), C)
  /\ Rendered =>
       /\ selectValue \in connectedCodes
       /\ connectedCodes = Destinations(filteredRoutes) \cup {selectValue}

\* updateLayers has run for a selection without any route.
C2_Witness ==
  /\ Rendered
  /\ filteredRoutes = <<>>
  /\ selectValue \in connectedCodes

\* C3: the summary's route count is the number of filtered routes and its
\* destination count is the number of distinct destination codes among the
\* filtered routes, also when a filtered route ends at the selected code.
C3_SummaryCounts ==
  Rendered =>
    /\ statsDiv.kind = "summary"
    /\ statsDiv.routes = Len(filteredRoutes)
    /\ statsDiv.destinations = Cardinality(Destinations(filteredRoutes))

\* C4: a selection without routes is no error: the summary is written with
\* route count 0 and destination count 0, and the arc layer has no entries.
C4_ZeroRoutes ==
  /\ \A C \in Codes \cup {NoValue} :
       filterRoutes(ROUTES_DATA, C) = <<>> =>
         LET st == statsOf(AIRPORTS_GEOJSON, C, <<>>, connectedCodesOf(<<>>, C))
         IN  st.routes = 0 /\ st.destinations = 0
  /\ (Rendered /\ filterRoutes(ROUTES_DATA, selectValue) = <<>>) =>
       /\ statsDiv.kind = "summary"
       /\ statsDiv.code = selectValue
       /\ statsDiv.routes = 0
       /\ statsDiv.destinations = 0
       /\ \A i \in DOMAIN DisplayedLayers : DisplayedLayers[i].routes = <<>>

\* The arc layer is drawn, empty, for a selection without routes.
C4_Witness ==
  /\ Rendered
  /\ filterRoutes(ROUTES_DATA, selectValue) = <<>>
  /\ statsDiv.routes = 0
  /\ LayersWithId(DisplayedLayers, "arc-layer") = <<ArcLayer(<<>>)>>

\* What a toggle step must leave alone and what it must do to the layers.
ToggleFrame ==
  /\ selectValue' = selectValue
  /\ statsDiv' = statsDiv
  /\ showRoutesChecked' # showRoutesChecked =>
       /\ LayersWithId(DisplayedLayers', "airport-layer") =
            LayersWithId(DisplayedLayers, "airport-layer")
       /\ LayersWithId(DisplayedLayers', "arc-layer") =
            IF showRoutesChecked' THEN <<ArcLayer(filteredRoutes)>> ELSE <<>>
  /\ showAirportsChecked' # showAirportsChecked =>
       /\ LayersWithId(DisplayedLayers', "arc-layer") =
            LayersWithId(DisplayedLayers, "arc-layer")
       /\ LayersWithId(DisplayedLayers', "airport-layer") =
            IF showAirportsChecked'
            THEN <<ScatterplotLayer(
                     filterAirports(AIRPORTS_GEOJSON, connectedCodes),
                     selectValue)>>
            ELSE <<>>

IsToggleStep ==
  \/ showRoutesChecked' # showRoutesChecked
  \/ showAirportsChecked' # showAirportsChecked

\* C5 as claimed: every toggle event changes only the toggled layer: the
\* other layer is present or absent with the same data as before, and the
\* selected code and the summary are unchanged.
C5_ToggleOnlyLayers == [][IsToggleStep => ToggleFrame]_vars

\* C5 as amended: once updateLayers has run (the overlay exists), a toggle
\* event changes only the toggled layer: turning a flag off removes that
\* layer, turning it on adds it with the current data, the other layer is
\* present or absent with the same data as before, and the selected code
\* and the summary are unchanged.
C5_ToggleOnlyLayersOnceRendered ==
  [][(Rendered /\ IsToggleStep) => ToggleFrame]_vars

\* A flag has been turned off with the view already drawn, the other layer
\* still shown.
C5_Witness ==
  /\ lastEvent.kind = "toggle-routes"
  /\ mapLoaded
  /\ ~showRoutesChecked
  /\ showAirportsChecked
  /\ LayersWithId(DisplayedLayers, "arc-layer") = <<>>
  /\ LayersWithId(DisplayedLayers, "airport-layer") # <<>>

\* C6: a click on a rendered airport point whose code is no option of the
\* dropdown changes nothing: selection, flags, summary and overlay stay,
\* and updateLayers does not run.
C6_ClickNonSourceNoOp ==
  [][(lastEvent'.kind = "click"
        /\ lastEvent'.code \notin SeqRange(SRC_AIRPORTS)) =>
       /\ ~lastEvent'.ran
       /\ UNCHANGED <<selectValue, showRoutesChecked, showAirportsChecked,
                      statsDiv, deckOverlay, mapControls, filteredRoutes,
                      connectedCodes>>]_vars

\* A destination airport that is no source has been clicked.
C6_Witness ==
  /\ lastEvent.kind = "click"
  /\ lastEvent.code \notin SeqRange(SRC_AIRPORTS)
  /\ lastEvent.code \in connectedCodes

\* C7: a click on a rendered airport point whose code K is an option of the
\* dropdown leaves the panel as the dropdown's change listener does for K
\* from the same state.
C7_ClickEqualsChange ==
  [][(lastEvent'.kind = "click"
        /\ lastEvent'.code \in SeqRange(SRC_AIRPORTS)) =>
       SelectChangeEffect(lastEvent'.code)]_vars

\* A source airport has been clicked and is now the selection.
C7_Witness ==
  /\ lastEvent.kind = "click"
  /\ lastEvent.ran
  /\ lastEvent.code = selectValue
  /\ selectValue # PopulateDropdown(SRC_AIRPORTS)
  /\ statsDiv.code = selectValue

\* The view recomputed from the selection state and the datasets.
ViewFresh ==
  LET filtered  == filterRoutes(ROUTES_DATA, selectValue)
      connected == Destinations(filtered) \cup {selectValue}
      airports  == filterAirports(AIRPORTS_GEOJSON, connected)
  IN  /\ Rendered
      /\ statsDiv = statsOf(AIRPORTS_GEOJSON, selectValue, filtered, connected)
      /\ DisplayedLayers =
           (IF showRoutesChecked THEN <<ArcLayer(filtered)>> ELSE <<>>)
           \o (IF showAirportsChecked
               THEN <<ScatterplotLayer(airports, selectValue)>> ELSE <<>>)

\* C8: after the handler of any user input event the summary and the layer
\* list are those recomputed from the current selection state and the
\* datasets.
C8_ViewNeverStale == lastEvent.kind \in UserEvents => ViewFresh

\* The airports were hidden after the selection had been changed.
C8_Witness ==
  /\ lastEvent.kind = "toggle-airports"
  /\ ~showAirportsChecked
  /\ selectValue # PopulateDropdown(SRC_AIRPORTS)
  /\ ViewFresh

\* C9: the option list is the sorted distinct source codes; when it is not
\* empty the selected code is always one of its members, so the selection
\* always has a route.
C9_SelectionIsSource ==
  /\ SeqRange(SRC_AIRPORTS) =
       {ROUTES_DATA[i].src_airport : i \in DOMAIN ROUTES_DATA}
  /\ \A i, j \in DOMAIN SRC_AIRPORTS :
       i < j => Rank(SRC_AIRPORTS[i]) < Rank(SRC_AIRPORTS[j])
  /\ SRC_AIRPORTS # <<>> =>
       /\ selectValue \in SeqRange(SRC_AIRPORTS)
       /\ filterRoutes(ROUTES_DATA, selectValue) # <<>>
       /\ Rendered => filteredRoutes # <<>>

\* The default "ATL" is no source of the dataset and the view was drawn.
C9_Witness ==
  /\ SRC_AIRPORTS # <<>>
  /\ currentAirport \notin SeqRange(SRC_AIRPORTS)
  /\ Rendered
  /\ filteredRoutes # <<>>

\* C10: the overlay is created and added to the map at most once, on the
\* first recomputation; every later recomputation keeps that overlay and
\* adds nothing to the map.
C10_OverlayCreatedOnce ==
  /\ [](/\ Len(mapControls) <= 1
        /\ Rendered => mapControls = <<deckOverlay[1].id>>)
  /\ [][Rendered =>
          /\ Rendered'
          /\ deckOverlay'[1].id = deckOverlay[1].id
          /\ mapControls' = mapControls]_vars

\* The map's load event recomputed a view that a toggle had drawn before.
C10_Witness ==
  /\ lastEvent.kind = "load"
  /\ ~showRoutesChecked
  /\ Len(mapControls) = 1
  /\ Rendered


=============================================================================
